---- MODULE Spec2Model ----
(* A model of chain/flow.go: the Flow type, its position store guarded by   *)
(* a sync.RWMutex, and the Start / Process entry points, run by several     *)
(* concurrent workers (goroutines).                                         *)
EXTENDS Integers, Sequences, FiniteSets, TLC

\* ---------------------------------------------------------------- bounds
MaxChain == 1
NumRecipients == 2
NumWorkers == 2
MaxContent == 1
SteadyChain == 2

\* ------------------------------------------------------------ the values
\* The nil *Node; the root sentinel is node 0, the chain is 1..chainLen.
NIL == -1
Root == 0
Workers == 1..NumWorkers
Recipients == 1..NumRecipients
Contents == 1..MaxContent
NoWorker == 0

\* A nil *tb.Message, and the messages with a sender and some content.
NilMsg == [sender |-> 0, content |-> 0]
Messages == [sender : Recipients, content : Contents]

\* The messages whose Sender is nil (sender key 0: there is no recipient).
SenderlessMessages == [sender : {0}, content : Contents]

\* The identifiers a flow is created with; no operation looks into one.
FlowIds == {"flow"}

VARIABLES
    flowId,          \* f.flowId
    rootId,          \* f.root.id
    chainLen,        \* number of nodes appended after the root
    endpoints,       \* the nodes whose endpoint is not nil
    validator,       \* node -> the message contents its validator accepts
    defaultHandler,  \* TRUE iff f.defaultHandler is not nil
    positions,       \* f.positions: recipient key -> node (or NIL)
    writer,          \* f.mx: the worker holding it in write mode
    readers,         \* f.mx: the workers holding it in read mode
    op,              \* per worker: the method it is running
    pc,              \* per worker: where it is in its call
    rcpt,            \* per worker: the recipient key of the call
    msg,             \* per worker: Process's m
    node,            \* per worker: node read by GetPosition / given to SetPosition
    ok,              \* per worker: GetPosition's second result
    next,            \* per worker: what the transition function returned
    ret,             \* per worker: the value the finished call returned
    calls,           \* per worker: the transition functions this call invoked
    writes,          \* per worker: the map writes this call performed
    sent,            \* per worker: the transport sends this call made
    evicted          \* the recipients whose nil entry Process removed, and
                     \* whose position nothing has written since

vars == <<flowId, rootId, chainLen, endpoints, validator, defaultHandler, positions, writer,
          readers, op, pc, rcpt, msg, node, ok, next, ret, calls, writes, sent,
          evicted>>

config == <<flowId, rootId, chainLen, endpoints, validator, defaultHandler>>
lock == <<writer, readers>>
store == <<positions, evicted>>

Nodes == 0..chainLen
NodeRefs == Nodes \cup {NIL}

\* f.root.next
\* RootNext as if Start took the root itself for the first node.
RootNext_Root == Root

RootNext == IF chainLen = 0 THEN NIL ELSE 1

\* node.CheckEvent(m): applies the node's validator to the message
CheckEvent(n, m) == m.content \in validator[n]

\* MapStore as if the node were stored under every key of the map.
MapStore_All(m, k, n) == [x \in DOMAIN m \cup {k} |-> n]

\* delete(f.positions, key)
MapDelete(m, k) == [x \in DOMAIN m \ {k} |-> m[x]]

\* f.positions[key] = n
MapStore(m, k, n) == [x \in DOMAIN m \cup {k} |-> IF x = k THEN n ELSE m[x]]

\* make(map[string]*Node), sync.RWMutex{}: an empty position map, a free
\* lock, and no call in progress.
Fresh ==
    /\ positions = << >>
    /\ writer = NoWorker
    /\ readers = {}
    /\ op = [w \in Workers |-> "none"]
    /\ pc = [w \in Workers |-> "idle"]
    /\ rcpt = [w \in Workers |-> 0]
    /\ msg = [w \in Workers |-> NilMsg]
    /\ node = [w \in Workers |-> NIL]
    /\ ok = [w \in Workers |-> FALSE]
    /\ next = [w \in Workers |-> NIL]
    /\ ret = [w \in Workers |-> "none"]
    /\ calls = [w \in Workers |-> << >>]
    /\ writes = [w \in Workers |-> << >>]
    /\ sent = [w \in Workers |-> << >>]
    /\ evicted = {}

\* NewFlow(id, bot): the id goes to the root node, f.flowId keeps its zero
\* value; an empty position map, a free lock; the chain and the default
\* handler are set up by the builder before traffic.
Init ==
    /\ rootId \in FlowIds
    /\ flowId = ""
    /\ chainLen \in 0..MaxChain
    /\ endpoints \in SUBSET (1..chainLen)
    /\ validator \in [0..chainLen -> SUBSET Contents]
    /\ validator[Root] = {}
    /\ defaultHandler \in BOOLEAN
    /\ Fresh

\* ------------------------------------------------------- sync.RWMutex
\* f.mx.RLock()
RLock(w) == /\ writer = NoWorker
            /\ readers' = readers \cup {w}
            /\ UNCHANGED writer

\* f.mx.RUnlock()
RUnlock(w) == /\ readers' = readers \ {w}
              /\ UNCHANGED writer

\* Lock as if it did not wait for the readers to leave.
Lock_IgnoreReaders(w) == /\ writer = NoWorker
                         /\ writer' = w
                         /\ UNCHANGED readers

\* f.mx.Lock()
Lock(w) == /\ writer = NoWorker
           /\ readers = {}
           /\ writer' = w
           /\ UNCHANGED readers

\* f.mx.Unlock()
Unlock(w) == /\ writer' = NoWorker
             /\ UNCHANGED readers

\* A call by worker w, with clean per-call records, gets to p; v is what it
\* has returned if p is "done".
Begin(w, o, p, r, m, n, v) ==
    /\ pc[w] = "idle"
    /\ op' = [op EXCEPT ![w] = o]
    /\ pc' = [pc EXCEPT ![w] = p]
    /\ rcpt' = [rcpt EXCEPT ![w] = r]
    /\ msg' = [msg EXCEPT ![w] = m]
    /\ node' = [node EXCEPT ![w] = n]
    /\ ret' = [ret EXCEPT ![w] = v]
    /\ UNCHANGED <<config, store, lock, ok, next, calls, writes, sent>>

\* The call of worker w returns v.
Finish(w, v) ==
    /\ pc' = [pc EXCEPT ![w] = "done"]
    /\ ret' = [ret EXCEPT ![w] = v]

\* AfterGet as if the "not found" return were missing: a missing entry is
\* taken for a nil one.
AfterGet_NoFoundCheck(found, n) ==
    IF n = NIL THEN "proc_del_lock" ELSE "proc_check"

\* AfterGet as if a nil entry were reported without being deleted.
AfterGet_NoEvict(found, n) ==
    IF ~found \/ n = NIL THEN "done" ELSE "proc_check"

\* Process after GetPosition gave found and n:
\* if !ok { return false }; if node == nil { f.DeletePosition(sender) ... }
AfterGet(found, n) ==
    IF ~found THEN "done"
    ELSE IF n = NIL THEN "proc_del_lock" ELSE "proc_check"

\* --------------------------------------------------------- GetFlowId
\* return f.flowId
CallGetFlowId(w) ==
    Begin(w, "GetFlowId", "done", 0, NilMsg, NIL, flowId)

\* ------------------------------------------------------- GetPosition
CallGetPosition(w) ==
    \E r \in Recipients : Begin(w, "GetPosition", "get_rlock", r, NilMsg, NIL, "none")

GetPosition_RLock(w) ==
    /\ pc[w] \in {"get_rlock", "proc_rlock"}
    /\ RLock(w)
    /\ pc' = [pc EXCEPT ![w] = IF op[w] # "Process" THEN "get_read"
                                                      ELSE "proc_read"]
    /\ UNCHANGED <<config, store, op, rcpt, msg, node, ok, next, ret, calls,
                   writes, sent>>

\* GetPosition_Read as if the RUnlock were missing.
GetPosition_Read_NoRUnlock(w) ==
    /\ pc[w] \in {"get_read", "proc_read"}
    /\ IF rcpt[w] = 0
       THEN /\ pc' = [pc EXCEPT ![w] = "panic"]
            /\ UNCHANGED <<ok, node, ret>>
       ELSE LET found == rcpt[w] \in DOMAIN positions
                n == IF found THEN positions[rcpt[w]] ELSE NIL
            IN  /\ ok' = [ok EXCEPT ![w] = found]
                /\ node' = [node EXCEPT ![w] = n]
                /\ IF op[w] # "Process"
                   THEN Finish(w, "ok")
                   ELSE IF AfterGet(found, n) = "done"
                        THEN Finish(w, "false")
                        ELSE /\ pc' = [pc EXCEPT ![w] = AfterGet(found, n)]
                             /\ UNCHANGED ret
    /\ UNCHANGED <<config, store, lock, op, rcpt, msg, next, calls, writes,
                   sent>>

\* node, ok := f.positions[of.Recipient()]; f.mx.RUnlock(); return node, ok.
\* With a nil sender, of is a nil *tb.User and of.Recipient() dereferences
\* it: the goroutine panics at this line, after RLock and before RUnlock.
GetPosition_Read(w) ==
    /\ pc[w] \in {"get_read", "proc_read"}
    /\ IF rcpt[w] = 0
       THEN /\ pc' = [pc EXCEPT ![w] = "panic"]
            /\ UNCHANGED <<lock, ok, node, ret>>
       ELSE /\ LET found == rcpt[w] \in DOMAIN positions
                   n == IF found THEN positions[rcpt[w]] ELSE NIL
               IN  /\ ok' = [ok EXCEPT ![w] = found]
                   /\ node' = [node EXCEPT ![w] = n]
                   /\ IF op[w] # "Process"
                      THEN Finish(w, "ok")
                      ELSE IF AfterGet(found, n) = "done"
                           THEN Finish(w, "false")
                           ELSE /\ pc' = [pc EXCEPT ![w] = AfterGet(found, n)]
                                /\ UNCHANGED ret
            /\ RUnlock(w)
    /\ UNCHANGED <<config, store, op, rcpt, msg, next, calls, writes, sent>>

\* ------------------------------------------------------- SetPosition
CallSetPosition(w) ==
    \E r \in Recipients, n \in NodeRefs : Begin(w, "SetPosition", "set_lock", r, NilMsg, n, "none")

SetPosition_Lock(w) ==
    /\ pc[w] \in {"set_lock", "proc_set_lock"}
    /\ Lock(w)
    /\ pc' = [pc EXCEPT ![w] = IF op[w] # "Process" THEN "set_write"
                                                      ELSE "proc_set_write"]
    /\ UNCHANGED <<config, store, op, rcpt, msg, node, ok, next, ret, calls,
                   writes, sent>>

\* SetPosition_Write as if Process wrote only when the sender is still on the
\* node the call read (a compare-and-swap).
SetPosition_Write_IfUnchanged(w) ==
    /\ pc[w] \in {"set_write", "proc_set_write"}
    /\ LET n == IF op[w] # "Process" THEN node[w] ELSE next[w]
           stale == /\ op[w] = "Process"
                    /\ \/ rcpt[w] \notin DOMAIN positions
                       \/ positions[rcpt[w]] # node[w]
       IN  IF stale
           THEN UNCHANGED <<store, writes>>
           ELSE /\ positions' = MapStore(positions, rcpt[w], n)
                /\ evicted' = evicted \ {rcpt[w]}
                /\ writes' = [writes EXCEPT ![w] =
                                 Append(@, <<rcpt[w], "store", n>>)]
    /\ Unlock(w)
    /\ Finish(w, IF op[w] # "Process" THEN "ok" ELSE "true")
    /\ UNCHANGED <<config, op, rcpt, msg, node, ok, next, calls, sent>>

\* f.positions[key] = node; f.mx.Unlock()
SetPosition_Write(w) ==
    /\ pc[w] \in {"set_write", "proc_set_write"}
    /\ LET n == IF op[w] # "Process" THEN node[w] ELSE next[w] IN
        /\ positions' = MapStore(positions, rcpt[w], n)
        /\ evicted' = evicted \ {rcpt[w]}
        /\ writes' = [writes EXCEPT ![w] = Append(@, <<rcpt[w], "store", n>>)]
    /\ Unlock(w)
    /\ Finish(w, IF op[w] # "Process" THEN "ok" ELSE "true")
    /\ UNCHANGED <<config, op, rcpt, msg, node, ok, next, calls, sent>>

\* ---------------------------------------------------- DeletePosition
CallDeletePosition(w) ==
    \E r \in Recipients : Begin(w, "DeletePosition", "del_lock", r, NilMsg, NIL, "none")

DeletePosition_Lock(w) ==
    /\ pc[w] \in {"del_lock", "proc_del_lock"}
    /\ Lock(w)
    /\ pc' = [pc EXCEPT ![w] = IF op[w] # "Process" THEN "del_write"
                                                      ELSE "proc_del_write"]
    /\ UNCHANGED <<config, store, op, rcpt, msg, node, ok, next, ret, calls,
                   writes, sent>>

\* delete(f.positions, key); f.mx.Unlock()
DeletePosition_Write(w) ==
    /\ pc[w] \in {"del_write", "proc_del_write"}
    /\ positions' = MapDelete(positions, rcpt[w])
    /\ evicted' = IF op[w] = "Process" THEN evicted \cup {rcpt[w]} ELSE evicted
    /\ writes' = [writes EXCEPT ![w] = Append(@, <<rcpt[w], "delete", NIL>>)]
    /\ Unlock(w)
    /\ Finish(w, IF op[w] # "Process" THEN "ok" ELSE "false")
    /\ UNCHANGED <<config, op, rcpt, msg, node, ok, next, calls, sent>>

\* -------------------------------------------------------------- Start
\* CallStart without the test for an empty chain.
CallStart_NoChainCheck(w) ==
    \E r \in Recipients : Begin(w, "Start", "start_send", r, NilMsg, NIL, "none")

\* Start(to, ...): if f.root.next == nil { return ErrChainIsEmpty }
CallStart(w) ==
    \E r \in Recipients :
        IF RootNext = NIL
        THEN Begin(w, "Start", "done", r, NilMsg, NIL, "ErrChainIsEmpty")
        ELSE Begin(w, "Start", "start_send", r, NilMsg, NIL, "none")

\* Start_Send as if the position were set whatever the send answered.
Start_Send_IgnoreErr(w) ==
    /\ pc[w] = "start_send"
    /\ \E withOptions \in BOOLEAN, err \in {"nil", "ErrSend"} :
        sent' = [sent EXCEPT ![w] =
                   Append(@, <<rcpt[w], IF withOptions THEN "options"
                                                       ELSE "plain", err>>)]
    /\ pc' = [pc EXCEPT ![w] = "start_lock"]
    /\ UNCHANGED <<config, store, lock, op, rcpt, msg, node, ok, next, ret,
                   calls, writes>>

\* _, err = f.GetBot().Send(to, text[, options]): the options are passed on
\* only when there are some; the transport answers with an error or without.
Start_Send(w) ==
    /\ pc[w] = "start_send"
    /\ \E withOptions \in BOOLEAN, err \in {"nil", "ErrSend"} :
        /\ sent' = [sent EXCEPT ![w] =
                      Append(@, <<rcpt[w], IF withOptions THEN "options"
                                                          ELSE "plain", err>>)]
        /\ IF err = "nil"
           THEN pc' = [pc EXCEPT ![w] = "start_lock"] /\ UNCHANGED ret
           ELSE Finish(w, err)
    /\ UNCHANGED <<config, store, lock, op, rcpt, msg, node, ok, next, calls,
                   writes>>

Start_Lock(w) ==
    /\ pc[w] = "start_lock"
    /\ Lock(w)
    /\ pc' = [pc EXCEPT ![w] = "start_write"]
    /\ UNCHANGED <<config, store, op, rcpt, msg, node, ok, next, ret, calls,
                   writes, sent>>

\* Start_Write as if it stored f.root instead of f.root.next.
Start_Write_Root(w) ==
    /\ pc[w] = "start_write"
    /\ positions' = MapStore(positions, rcpt[w], Root)
    /\ evicted' = evicted \ {rcpt[w]}
    /\ writes' = [writes EXCEPT ![w] = Append(@, <<rcpt[w], "store", Root>>)]
    /\ Unlock(w)
    /\ Finish(w, "nil")
    /\ UNCHANGED <<config, op, rcpt, msg, node, ok, next, calls, sent>>

\* f.positions[to.Recipient()] = f.root.next; f.mx.Unlock(); return
Start_Write(w) ==
    /\ pc[w] = "start_write"
    /\ positions' = MapStore(positions, rcpt[w], RootNext)
    /\ evicted' = evicted \ {rcpt[w]}
    /\ writes' = [writes EXCEPT ![w] = Append(@, <<rcpt[w], "store", RootNext>>)]
    /\ Unlock(w)
    /\ Finish(w, "nil")
    /\ UNCHANGED <<config, op, rcpt, msg, node, ok, next, calls, sent>>

\* ------------------------------------------------------------ Process
\* Process(m): if m == nil { return false }; sender := m.Sender; then
\* f.GetPosition(sender)
CallProcess(w) ==
    \E m \in Messages \cup SenderlessMessages \cup {NilMsg} :
        IF m = NilMsg
        THEN Begin(w, "Process", "done", 0, m, NIL, "false")
        ELSE Begin(w, "Process", "proc_rlock", m.sender, m, NIL, "none")

\* Process_Check with the validator's answer inverted.
Process_Check_Inverted(w) ==
    /\ pc[w] = "proc_check"
    /\ IF CheckEvent(node[w], msg[w]) \/ node[w] \notin endpoints
       THEN IF defaultHandler
            THEN pc' = [pc EXCEPT ![w] = "proc_default"] /\ UNCHANGED ret
            ELSE Finish(w, "false")
       ELSE pc' = [pc EXCEPT ![w] = "proc_endpoint"] /\ UNCHANGED ret
    /\ UNCHANGED <<config, store, lock, op, rcpt, msg, node, ok, next, calls,
                   writes, sent>>

\* Process_Check without the test for a nil endpoint.
Process_Check_NoEndpointTest(w) ==
    /\ pc[w] = "proc_check"
    /\ IF ~CheckEvent(node[w], msg[w])
       THEN IF defaultHandler
            THEN pc' = [pc EXCEPT ![w] = "proc_default"] /\ UNCHANGED ret
            ELSE Finish(w, "false")
       ELSE pc' = [pc EXCEPT ![w] = "proc_endpoint"] /\ UNCHANGED ret
    /\ UNCHANGED <<config, store, lock, op, rcpt, msg, node, ok, next, calls,
                   writes, sent>>

\* Process_Check as if a rejected input were reported as handled.
Process_Check_RejectTrue(w) ==
    /\ pc[w] = "proc_check"
    /\ IF ~CheckEvent(node[w], msg[w]) \/ node[w] \notin endpoints
       THEN IF defaultHandler
            THEN pc' = [pc EXCEPT ![w] = "proc_default"] /\ UNCHANGED ret
            ELSE Finish(w, "true")
       ELSE pc' = [pc EXCEPT ![w] = "proc_endpoint"] /\ UNCHANGED ret
    /\ UNCHANGED <<config, store, lock, op, rcpt, msg, node, ok, next, calls,
                   writes, sent>>

\* if !node.CheckEvent(m) || node.endpoint == nil { if f.defaultHandler != nil
Process_Check(w) ==
    /\ pc[w] = "proc_check"
    /\ IF ~CheckEvent(node[w], msg[w]) \/ node[w] \notin endpoints
       THEN IF defaultHandler
            THEN pc' = [pc EXCEPT ![w] = "proc_default"] /\ UNCHANGED ret
            ELSE Finish(w, "false")
       ELSE pc' = [pc EXCEPT ![w] = "proc_endpoint"] /\ UNCHANGED ret
    /\ UNCHANGED <<config, store, lock, op, rcpt, msg, node, ok, next, calls,
                   writes, sent>>

\* Transition as if it returned next != node.
Transition_ReturnsChanged(w, fn) ==
    /\ \E res \in NodeRefs :
        /\ next' = [next EXCEPT ![w] = res]
        /\ calls' = [calls EXCEPT ![w] = Append(@, <<fn, node[w], msg[w]>>)]
        /\ IF res # node[w]
           THEN pc' = [pc EXCEPT ![w] = "proc_set_lock"] /\ UNCHANGED ret
           ELSE Finish(w, "false")
    /\ UNCHANGED <<config, store, lock, op, rcpt, msg, node, ok, writes, sent>>

\* Transition as if a nil result removed the sender's entry at once.
Transition_NilDeletes(w, fn) ==
    /\ \E res \in NodeRefs :
        /\ next' = [next EXCEPT ![w] = res]
        /\ calls' = [calls EXCEPT ![w] = Append(@, <<fn, node[w], msg[w]>>)]
        /\ IF res = NIL
           THEN pc' = [pc EXCEPT ![w] = "proc_del_lock"] /\ UNCHANGED ret
           ELSE IF res # node[w]
                THEN pc' = [pc EXCEPT ![w] = "proc_set_lock"] /\ UNCHANGED ret
                ELSE Finish(w, "true")
    /\ UNCHANGED <<config, store, lock, op, rcpt, msg, node, ok, writes, sent>>

\* Transition without the next != node test: the position is always written.
Transition_AlwaysWrite(w, fn) ==
    /\ \E res \in NodeRefs :
        /\ next' = [next EXCEPT ![w] = res]
        /\ calls' = [calls EXCEPT ![w] = Append(@, <<fn, node[w], msg[w]>>)]
        /\ pc' = [pc EXCEPT ![w] = "proc_set_lock"]
    /\ UNCHANGED <<config, store, lock, op, rcpt, msg, node, ok, ret, writes,
                   sent>>

\* next := fn(node, m); if next != node { f.SetPosition(sender, next) };
\* return true.  The transition function is the caller's: it may return any
\* node of the flow, or nil.
Transition(w, fn) ==
    /\ \E res \in NodeRefs :
        /\ next' = [next EXCEPT ![w] = res]
        /\ calls' = [calls EXCEPT ![w] = Append(@, <<fn, node[w], msg[w]>>)]
        /\ IF res # node[w]
           THEN pc' = [pc EXCEPT ![w] = "proc_set_lock"] /\ UNCHANGED ret
           ELSE Finish(w, "true")
    /\ UNCHANGED <<config, store, lock, op, rcpt, msg, node, ok, writes, sent>>

Process_Default(w) ==
    /\ pc[w] = "proc_default"
    /\ Transition(w, "default")

Process_Endpoint(w) ==
    /\ pc[w] = "proc_endpoint"
    /\ Transition(w, "endpoint")

\* The caller has the result; the worker is free for its next call.
Return(w) ==
    /\ pc[w] = "done"
    /\ pc' = [pc EXCEPT ![w] = "idle"]
    /\ op' = [op EXCEPT ![w] = "none"]
    /\ rcpt' = [rcpt EXCEPT ![w] = 0]
    /\ msg' = [msg EXCEPT ![w] = NilMsg]
    /\ node' = [node EXCEPT ![w] = NIL]
    /\ ok' = [ok EXCEPT ![w] = FALSE]
    /\ next' = [next EXCEPT ![w] = NIL]
    /\ ret' = [ret EXCEPT ![w] = "none"]
    /\ calls' = [calls EXCEPT ![w] = << >>]
    /\ writes' = [writes EXCEPT ![w] = << >>]
    /\ sent' = [sent EXCEPT ![w] = << >>]
    /\ UNCHANGED <<config, store, lock>>

Next ==
    \E w \in Workers :
        \/ CallGetFlowId(w)
        \/ CallGetPosition(w)
        \/ GetPosition_RLock(w)
        \/ GetPosition_Read(w)
        \/ CallSetPosition(w)
        \/ SetPosition_Lock(w)
        \/ SetPosition_Write(w)
        \/ CallDeletePosition(w)
        \/ DeletePosition_Lock(w)
        \/ DeletePosition_Write(w)
        \/ CallStart(w)
        \/ Start_Send(w)
        \/ Start_Lock(w)
        \/ Start_Write(w)
        \/ CallProcess(w)
        \/ Process_Check(w)
        \/ Process_Default(w)
        \/ Process_Endpoint(w)
        \/ Return(w)

Spec == Init /\ [][Next]_vars

\* ------------------------------------------- Start and Process traffic only
\* The nodes after n on the chain.
Forward(n) == {m \in Nodes : m > n}

\* A flow with a chain of SteadyChain nodes whose validators accept the
\* messages; which nodes have an endpoint and whether a default handler is
\* set stays open.
SteadyInit ==
    /\ rootId \in FlowIds
    /\ flowId = ""
    /\ chainLen = SteadyChain
    /\ endpoints \in SUBSET (1..chainLen)
    /\ validator = [n \in 0..chainLen |-> IF n = Root THEN {} ELSE Contents]
    /\ defaultHandler \in BOOLEAN
    /\ Fresh

\* Process's transition step with a transition function that returns the
\* current node, a node further down the chain, or nil.
SteadyTransition(w, fn) ==
    /\ Transition(w, fn)
    /\ next'[w] \in {node[w], NIL} \cup Forward(node[w])

SteadyDefault(w) ==
    /\ pc[w] = "proc_default"
    /\ SteadyTransition(w, "default")

SteadyEndpoint(w) ==
    /\ pc[w] = "proc_endpoint"
    /\ SteadyTransition(w, "endpoint")

\* The callers call Start and Process only.
SteadyNext ==
    \E w \in Workers :
        \/ CallStart(w)
        \/ Start_Send(w)
        \/ Start_Lock(w)
        \/ Start_Write(w)
        \/ CallProcess(w)
        \/ GetPosition_RLock(w)
        \/ GetPosition_Read(w)
        \/ Process_Check(w)
        \/ SteadyDefault(w)
        \/ SteadyEndpoint(w)
        \/ SetPosition_Lock(w)
        \/ SetPosition_Write(w)
        \/ DeletePosition_Lock(w)
        \/ DeletePosition_Write(w)
        \/ Return(w)

SteadySpec == SteadyInit /\ [][SteadyNext]_vars

\* ------------------------------------------------------------ properties
\* Worker w runs Process and has looked the sender up (GetPosition returned).
Looked(w) == /\ op[w] = "Process"
             /\ msg[w] # NilMsg
             /\ pc[w] \notin {"proc_rlock", "proc_read", "panic"}

\* Process found a node for the sender.
OnNode(w) == Looked(w) /\ ok[w] /\ node[w] # NIL

\* The message passes the current node's validator and the node has an endpoint.
Accepts(w) == CheckEvent(node[w], msg[w]) /\ node[w] \in endpoints

\* The writes a Process call makes for a transition function's result.
WritesFor(w) == IF next[w] # node[w] THEN << <<rcpt[w], "store", next[w]>> >>
                ELSE << >>

\* C1: with an empty chain every Start call returns ErrChainIsEmpty at once,
\* sends nothing, writes nothing, and its step leaves the position map as it
\* was.
C1_EmptyChainStart ==
    /\ [](\A w \in Workers :
            (op[w] = "Start" /\ RootNext = NIL)
                => /\ pc[w] = "done"
                   /\ ret[w] = "ErrChainIsEmpty"
                   /\ sent[w] = << >>
                   /\ writes[w] = << >>)
    /\ [][\A w \in Workers :
            (op'[w] = "Start" /\ pc[w] = "idle" /\ RootNext = NIL)
                => positions' = positions]_vars

C1_Witness ==
    \E w \in Workers : /\ op[w] = "Start"
                       /\ pc[w] = "done"
                       /\ ret[w] = "ErrChainIsEmpty"
                       /\ DOMAIN positions # {}

\* C2: the step with which a Start call returns without error stores f.root.next,
\* a real node, as the recipient's position, whatever the entry was before, and
\* changes no other entry; the call has made one successful send.
C2_StartSetsFirstNode ==
    /\ [][\A w \in Workers :
            (op'[w] = "Start" /\ pc[w] # "done" /\ pc'[w] = "done"
                /\ ret'[w] = "nil")
                => /\ RootNext # NIL
                   /\ rcpt[w] \in DOMAIN positions'
                   /\ positions'[rcpt[w]] = RootNext
                   /\ positions' = MapStore(positions, rcpt[w], RootNext)]_vars
    /\ [](\A w \in Workers :
            (op[w] = "Start" /\ pc[w] = "done" /\ ret[w] = "nil")
                => /\ writes[w] = << <<rcpt[w], "store", RootNext>> >>
                   /\ Len(sent[w]) = 1
                   /\ sent[w][1][3] = "nil")

\* Start returned without error and the recipient is on the first real node.
C2_Witness ==
    \E w \in Workers : /\ op[w] = "Start"
                       /\ pc[w] = "done"
                       /\ ret[w] = "nil"
                       /\ rcpt[w] \in DOMAIN positions
                       /\ positions[rcpt[w]] = RootNext
                       /\ RootNext = 1

\* C3: when the transport send fails, Start returns that error after this one
\* send, never takes the lock or writes, and the position map is the same
\* after the failing step as before it.
C3_SendFailure ==
    /\ [](\A w \in Workers :
            (op[w] = "Start" /\ sent[w] # << >> /\ sent[w][1][3] = "ErrSend")
                => /\ pc[w] = "done"
                   /\ ret[w] = "ErrSend"
                   /\ Len(sent[w]) = 1
                   /\ writes[w] = << >>)
    /\ [][\A w \in Workers :
            (op[w] = "Start" /\ pc[w] = "start_send" /\ pc'[w] = "done")
                => /\ ret'[w] = "ErrSend"
                   /\ positions' = positions]_vars

C3_Witness ==
    \E w \in Workers : /\ op[w] = "Start"
                       /\ pc[w] = "done"
                       /\ ret[w] = "ErrSend"
                       /\ rcpt[w] \in DOMAIN positions

\* C4: a Process call that finds no entry for the sender returns false at
\* once, invokes no transition function and writes nothing; the step that
\* reads the missing entry leaves the position map unchanged.
C4_NoPosition ==
    /\ [](\A w \in Workers :
            (Looked(w) /\ ~ok[w])
                => /\ pc[w] = "done"
                   /\ ret[w] = "false"
                   /\ calls[w] = << >>
                   /\ writes[w] = << >>)
    /\ [][\A w \in Workers :
            (op[w] = "Process" /\ pc[w] = "proc_read" /\ pc'[w] # pc[w]
                /\ rcpt[w] \in Recipients
                /\ rcpt[w] \notin DOMAIN positions)
                => /\ pc'[w] = "done"
                   /\ positions' = positions]_vars

C4_Witness ==
    \E w \in Workers : /\ Looked(w)
                       /\ ~ok[w]
                       /\ pc[w] = "done"
                       /\ DOMAIN positions # {}

\* C5: a Process call that finds a nil entry invokes no transition function,
\* deletes the sender's entry and returns false; the entry is then absent,
\* and, as long as nothing writes the sender's position, stays absent; the
\* next Process call for that sender returns false and leaves it absent.
C5_NilPosition ==
    /\ [](\A w \in Workers :
            (Looked(w) /\ ok[w] /\ node[w] = NIL)
                => /\ calls[w] = << >>
                   /\ pc[w] \in {"proc_del_lock", "proc_del_write", "done"}
                   /\ pc[w] = "done"
                        => /\ ret[w] = "false"
                           /\ writes[w] = << <<rcpt[w], "delete", NIL>> >>)
    /\ [](\A r \in evicted : r \notin DOMAIN positions)
    /\ [][\A w \in Workers :
            (op[w] = "Process" /\ pc[w] = "proc_del_write" /\ pc'[w] = "done")
                => /\ rcpt[w] \notin DOMAIN positions'
                   /\ rcpt[w] \in evicted'
                   /\ positions' = MapDelete(positions, rcpt[w])]_vars
    /\ [][\A w \in Workers :
            (op[w] = "Process" /\ pc[w] = "proc_read" /\ pc'[w] # pc[w]
                /\ rcpt[w] \in evicted)
                => /\ pc'[w] = "done"
                   /\ ret'[w] = "false"
                   /\ calls'[w] = << >>
                   /\ rcpt[w] \notin DOMAIN positions']_vars

\* The second Process call for a sender whose nil entry the first one removed.
C5_Witness ==
    \E w \in Workers : /\ Looked(w)
                       /\ pc[w] = "done"
                       /\ ~ok[w]
                       /\ ret[w] = "false"
                       /\ rcpt[w] \in evicted

\* C6: on a node with an endpoint whose validator accepts the message, Process
\* never invokes the default handler; when it returns it has invoked the
\* endpoint exactly once with (node, message), returns true, and has written
\* the sender's position (to the returned node) iff that node is not the
\* current one.
C6_EndpointTransition ==
    \A w \in Workers :
        (OnNode(w) /\ Accepts(w))
            => /\ pc[w] \in {"proc_check", "proc_endpoint", "proc_set_lock",
                             "proc_set_write", "done"}
               /\ pc[w] \in {"proc_check", "proc_endpoint"} => calls[w] = << >>
               /\ pc[w] \in {"proc_set_lock", "proc_set_write", "done"}
                    => calls[w] = << <<"endpoint", node[w], msg[w]>> >>
               /\ pc[w] \in {"proc_set_lock", "proc_set_write"}
                    => next[w] # node[w] /\ writes[w] = << >>
               /\ pc[w] = "done"
                    => ret[w] = "true" /\ writes[w] = WritesFor(w)

C6_Witness ==
    \E w \in Workers : /\ OnNode(w) /\ Accepts(w)
                       /\ pc[w] = "done"
                       /\ next[w] # node[w]
                       /\ writes[w] # << >>

\* C7: when the message fails the node's validator or the node has no
\* endpoint, and a default handler is set, Process never invokes the node's
\* endpoint; when it returns it has invoked the default handler exactly once
\* with (node, message), returns true, and has written the sender's position
\* iff the returned node is not the current one.
C7_DefaultTransition ==
    \A w \in Workers :
        (OnNode(w) /\ ~Accepts(w) /\ defaultHandler)
            => /\ pc[w] \in {"proc_check", "proc_default", "proc_set_lock",
                             "proc_set_write", "done"}
               /\ pc[w] \in {"proc_check", "proc_default"} => calls[w] = << >>
               /\ pc[w] \in {"proc_set_lock", "proc_set_write", "done"}
                    => calls[w] = << <<"default", node[w], msg[w]>> >>
               /\ pc[w] \in {"proc_set_lock", "proc_set_write"}
                    => next[w] # node[w] /\ writes[w] = << >>
               /\ pc[w] = "done"
                    => ret[w] = "true" /\ writes[w] = WritesFor(w)

C7_Witness ==
    \E w \in Workers : /\ OnNode(w) /\ ~Accepts(w) /\ defaultHandler
                       /\ pc[w] = "done"
                       /\ node[w] \in endpoints
                       /\ next[w] = node[w]

\* C8: when the message fails the node's validator or the node has no
\* endpoint, and no default handler is set, Process returns false right after
\* the check, has invoked no transition function and written nothing.
C8_Rejected ==
    \A w \in Workers :
        (OnNode(w) /\ ~Accepts(w) /\ ~defaultHandler)
            => /\ pc[w] \in {"proc_check", "done"}
               /\ calls[w] = << >>
               /\ writes[w] = << >>
               /\ pc[w] = "done" => ret[w] = "false"

C8_Witness ==
    \E w \in Workers : /\ OnNode(w) /\ ~Accepts(w) /\ ~defaultHandler
                       /\ pc[w] = "done"
                       /\ node[w] \in endpoints

\* C9: a finished Process call returned true iff it invoked exactly one
\* transition function (it never invokes more), whatever that function
\* returned; a nil message, a missing entry, a nil entry and a rejected input
\* without default handler all give false.
C9_ReturnsTrueIffTransition ==
    \A w \in Workers :
        (op[w] = "Process" /\ pc[w] = "done")
            => /\ ret[w] \in {"true", "false"}
               /\ Len(calls[w]) <= 1
               /\ ret[w] = "true" <=> Len(calls[w]) = 1
               /\ (\/ msg[w] = NilMsg
                   \/ ~ok[w]
                   \/ node[w] = NIL
                   \/ (~Accepts(w) /\ ~defaultHandler)) => ret[w] = "false"

\* Process returned true for a transition function that returned nil.
C9_Witness ==
    \E w \in Workers : /\ op[w] = "Process"
                       /\ pc[w] = "done"
                       /\ ret[w] = "true"
                       /\ Len(calls[w]) = 1
                       /\ next[w] = NIL

\* C10: a Process call whose transition function returned the current node
\* returns true without taking the write lock or writing: the step in which
\* the function returns leaves the position map as it is, also when another
\* worker has written the sender's position since this call read it.
C10_SameNodeNoWrite ==
    /\ [](\A w \in Workers :
            (op[w] = "Process" /\ calls[w] # << >> /\ next[w] = node[w])
                => /\ pc[w] = "done"
                   /\ ret[w] = "true"
                   /\ writes[w] = << >>)
    /\ [][\A w \in Workers :
            (op[w] = "Process" /\ calls'[w] # calls[w] /\ next'[w] = node[w])
                => positions' = positions]_vars

\* The call kept the sender on its node while another worker moved the sender.
C10_Witness ==
    \E w \in Workers : /\ op[w] = "Process"
                       /\ pc[w] = "done"
                       /\ calls[w] # << >>
                       /\ next[w] = node[w]
                       /\ rcpt[w] \in DOMAIN positions
                       /\ positions[rcpt[w]] # node[w]

\* Where a worker runs code that is not the flow's: a validator, a transition
\* function, the transport's send.
CallbackPcs == {"proc_check", "proc_default", "proc_endpoint", "start_send"}

\* Where a worker is about to read the position map, and about to write it.
ReadPcs == {"get_read", "proc_read"}
WritePcs == {"set_write", "proc_set_write", "del_write", "proc_del_write",
             "start_write"}

\* C11: a worker that runs a validator, an endpoint, the default handler or
\* the transport send holds the lock in no mode; so when every call in
\* progress is inside such a callback, the lock is free for any other call.
C11_NoLockInCallbacks ==
    /\ \A w \in Workers :
            pc[w] \in CallbackPcs => (writer # w /\ w \notin readers)
    /\ (\A w \in Workers : pc[w] \in CallbackPcs \cup {"idle", "done"})
            => (writer = NoWorker /\ readers = {})

\* One worker is inside a transition function while another holds the
\* write lock.
C11_Witness ==
    \E w, v \in Workers : /\ pc[w] \in {"proc_endpoint", "proc_default"}
                          /\ pc[v] \in WritePcs
                          /\ writer = v

\* C13: a worker reads the position map only while it holds the lock in read
\* mode and nobody holds it in write mode, and writes the map only while it
\* holds the lock in write mode and nobody holds it in read mode; so no write
\* overlaps a write or a read, for whatever recipients.
C13_LockDiscipline ==
    /\ \A w \in Workers :
            pc[w] \in ReadPcs => (w \in readers /\ writer = NoWorker)
    /\ \A w \in Workers :
            pc[w] \in WritePcs => (writer = w /\ readers = {})
    /\ \A w, v \in Workers :
            (w # v /\ pc[w] \in WritePcs) => pc[v] \notin WritePcs \cup ReadPcs

\* Two workers read the map at the same time, for different recipients.
C13_Witness ==
    \E w, v \in Workers : /\ w # v
                          /\ pc[w] \in ReadPcs /\ pc[v] \in ReadPcs
                          /\ rcpt[w] # rcpt[v]
                          /\ readers = {w, v}

\* C12: a Process call stores the result of its transition function whatever
\* the sender's position has become since the call read it: nothing orders
\* two Process calls for one sender, and the later write of two calls that
\* read the same node replaces the earlier one.
C12_UnserializedProcess ==
    [][\A w \in Workers :
        (op[w] = "Process" /\ pc[w] = "proc_set_write" /\ pc'[w] = "done")
            => /\ positions' = MapStore(positions, rcpt[w], next[w])
               /\ ret'[w] = "true"]_vars

\* Two Process calls for one sender read the same node and both invoked a
\* transition function on it; one has written its result, the other is about
\* to write its own over it.
C12_Witness ==
    \E w, v \in Workers :
        /\ w # v
        /\ op[w] = "Process" /\ op[v] = "Process"
        /\ rcpt[w] = rcpt[v]
        /\ node[w] = node[v] /\ node[w] # NIL
        /\ Len(calls[w]) = 1 /\ Len(calls[v]) = 1
        /\ pc[w] = "done" /\ writes[w] # << >>
        /\ pc[v] \in {"proc_set_lock", "proc_set_write"}
        /\ rcpt[w] \in DOMAIN positions
        /\ positions[rcpt[w]] = next[w]

\* C14: GetFlowId returns the identifier the flow was created with.
C14_GetFlowIdReturnsId ==
    \A w \in Workers :
        (op[w] = "GetFlowId" /\ pc[w] = "done") => ret[w] = rootId

\* C15: Process with a nil message, or with a message without sender, does
\* not crash, invokes no transition function, writes nothing, and returns
\* false.
C15_RejectsMissingOrSenderless ==
    \A w \in Workers :
        (op[w] = "Process" /\ msg[w].sender = 0)
            => /\ pc[w] # "panic"
               /\ calls[w] = << >>
               /\ writes[w] = << >>
               /\ pc[w] = "done" => ret[w] = "false"

\* C16: a Process call whose transition function returned nil returns true
\* and has stored nil under the sender's key, so the key stays in the map;
\* a key with a nil node leaves the map only by the delete of a Process call
\* or of a DeletePosition call for that key.
C16_NilResultKept ==
    /\ [](\A w \in Workers :
            (op[w] = "Process" /\ pc[w] = "done" /\ calls[w] # << >>
                /\ next[w] = NIL)
                => /\ ret[w] = "true"
                   /\ writes[w] = << <<rcpt[w], "store", NIL>> >>)
    /\ [][\A w \in Workers :
            (op[w] = "Process" /\ pc[w] = "proc_set_write" /\ pc'[w] = "done"
                /\ next[w] = NIL)
                => /\ rcpt[w] \in DOMAIN positions'
                   /\ positions'[rcpt[w]] = NIL]_vars
    /\ [][\A r \in Recipients :
            (r \in DOMAIN positions /\ positions[r] = NIL
                /\ r \notin DOMAIN positions')
                => \E w \in Workers :
                      /\ rcpt[w] = r
                      /\ op[w] \in {"Process", "DeletePosition"}
                      /\ pc[w] \in {"del_write", "proc_del_write"}
                      /\ pc'[w] = "done"]_vars

\* A transition function returned nil and GetPosition then reports the
\* sender's key as found, with a nil node.
C16_Witness ==
    \E w, v \in Workers :
        /\ op[w] = "Process" /\ pc[w] = "done" /\ ret[w] = "true"
        /\ calls[w] # << >> /\ next[w] = NIL
        /\ op[v] = "GetPosition" /\ pc[v] = "done"
        /\ rcpt[v] = rcpt[w] /\ ok[v] /\ node[v] = NIL
        /\ rcpt[w] \in DOMAIN positions /\ positions[rcpt[w]] = NIL

\* C17: with Start and Process calls only, and transition functions that
\* return the current node, a later node of the chain, or nil, no recipient's
\* position is ever the root node, and no call ever stores it.
C17_NeverRoot ==
    /\ \A r \in DOMAIN positions : positions[r] # Root
    /\ \A w \in Workers : \A i \in 1..Len(writes[w]) : writes[w][i][3] # Root

\* One recipient has been moved forward to the last node of the chain, and
\* another recipient's position is nil after a transition function returned
\* nil.
C17_Witness ==
    \E r, q \in DOMAIN positions :
        /\ positions[r] = SteadyChain
        /\ positions[q] = NIL
        /\ \E w \in Workers : /\ op[w] = "Process" /\ pc[w] = "done"
                               /\ rcpt[w] = r /\ node[w] = 1
                               /\ next[w] = SteadyChain

\* C18: the delete with which Process cleans up removes only an entry whose
\* node is nil when it is removed.
C18_CleanupRemovesOnlyNil ==
    [][\A w \in Workers :
        (op[w] = "Process" /\ pc[w] = "proc_del_write" /\ pc'[w] = "done"
            /\ rcpt[w] \in DOMAIN positions)
            => positions[rcpt[w]] = NIL]_vars

\* C19: a step of a Start or Process call leaves the entry of every recipient
\* other than the call's own as it is: present or absent, and with the same
\* node.
C19_RecipientIsolation ==
    [][\A w \in Workers :
        (pc'[w] # pc[w] /\ (op[w] \in {"Start", "Process"}
                              \/ op'[w] \in {"Start", "Process"}))
            => LET key == IF pc[w] = "idle" THEN rcpt'[w] ELSE rcpt[w]
               IN  \A r \in Recipients \ {key} :
                      /\ r \in DOMAIN positions <=> r \in DOMAIN positions'
                      /\ r \in DOMAIN positions
                            => positions'[r] = positions[r]]_vars

\* A Start or Process call has written its recipient's entry while another
\* recipient has one.
C19_Witness ==
    \E w \in Workers :
        /\ op[w] \in {"Start", "Process"}
        /\ pc[w] = "done"
        /\ writes[w] # << >>
        /\ \E r \in Recipients \ {rcpt[w]} : r \in DOMAIN positions

\* C20: no call ends anywhere but in a return, and a worker holds the lock
\* only inside the critical section that releases it with its next step, so
\* that no call waits for the lock forever.
C20_CallsCompleteAndRelease ==
    \A w \in Workers :
        /\ w \in readers => pc[w] \in ReadPcs
        /\ writer = w => pc[w] \in WritePcs

====
